---- MODULE Spec2Model ----
(***************************************************************************)
(* Product importer: POST /upload (main.py upload_csv) running on the      *)
(* server's event loop, the upsert engine (crud.py), the in-memory         *)
(* progress tracker (utils.py) and the thread-pool endpoints               *)
(* POST /products and GET /progress/{task_id}.                             *)
(***************************************************************************)
EXTENDS Integers, Sequences, FiniteSets, TLC

\* ---------------------------------------------------------------- bounds
MaxRows == 3       \* data rows of all uploaded files together
MaxBlank == 1      \* blank lines of an uploaded file (counted, never yielded)
batch_size == 2    \* main.py:62 sets 1000; scaled down with the files
MaxHooks == 2      \* rows of table webhooks

\* The uploads clients make, named by the task id main.py:44 gives each
\* (a fresh uuid4), and the requests served by thread-pool workers.
Tasks == {"t1", "t2"}
Reqs == {"r1"}

\* Python's None, for optional strings and absent dictionary keys.
None == "None"

\* ------------------------------------------------------------- CSV rows
\* A row as csv.DictReader yields it: header -> value, None where the file
\* has no such column.
EmptyRow ==
    [sku |-> None, SKU |-> None, Sku |-> None,
     name |-> None, Name |-> None,
     description |-> None, Description |-> None,
     price |-> None, Price |-> None,
     active |-> None, Active |-> None]

Rows ==
    { [EmptyRow EXCEPT !.sku = "ABC", !.name = "n1", !.price = "p1"],
      [EmptyRow EXCEPT !.SKU = "abc", !.Name = "n2", !.active = " No "],
      [EmptyRow EXCEPT !.Sku = "abc", !.name = "", !.description = "d1",
                       !.Active = "yes"],
      [EmptyRow EXCEPT !.sku = "", !.SKU = "xy", !.active = ""],
      [EmptyRow EXCEPT !.name = "n2", !.price = "p1"] }

\* str.lower() on the strings of the model.
Lower(s) ==
    CASE s = "ABC" -> "abc"
      [] s = " No " -> " no "
      [] s = "No" -> "no"
      [] s = "FALSE" -> "false"
      [] s = "C" -> "c"
      [] s = "S" -> "s"
      [] s = "V" -> "v"
      [] OTHER -> s

\* str.strip() on the strings of the model.
Strip(s) ==
    CASE s = " No " -> "No"
      [] s = " no " -> "no"
      [] s = " " -> ""
      [] OTHER -> s

\* Python truthiness of an optional string, and `x or y`.
Truthy(x) == x # None /\ x # ""
Or(x, y) == IF Truthy(x) THEN x ELSE y

\* crud.py:40  sku = row.get("sku") or row.get("SKU") or row.get("Sku")
RowSku(row) == Or(Or(row.sku, row.SKU), row.Sku)

\* crud.py:44-46  x = row.get("x") or row.get("X") or None
RowName(row) == Or(Or(row.name, row.Name), None)
RowDescription(row) == Or(Or(row.description, row.Description), None)
RowPrice(row) == Or(Or(row.price, row.Price), None)

\* The active column compared without strip().
RowActive_nostrip(row) ==
    LET active_raw == Or(Or(row.active, row.Active), None)
    IN  IF active_raw = None THEN None
        ELSE IF Lower(active_raw) \in {"0", "false", "no", "n"}
             THEN "False" ELSE "True"

\* crud.py:48-54  the optional active column: None, or "True" / "False".
RowActive(row) ==
    LET active_raw == Or(Or(row.active, row.Active), None)
    IN  IF active_raw = None THEN None
        ELSE IF Lower(Strip(active_raw)) \in {"0", "false", "no", "n"}
             THEN "False" ELSE "True"

\* -------------------------------------------------------------- catalog
\* models.py Product: the committed rows of table products (timestamps
\* left out).  active is stored as a boolean.
NewProduct(id, sku, name, description, price, active) ==
    [id |-> id, sku |-> sku, name |-> name, description |-> description,
     price |-> price, active |-> active]

\* get_product_by_sku comparing the sku as written.
get_product_by_sku_exact(products, sku) ==
    IF ~Truthy(sku) THEN {}
    ELSE {p \in products : p.sku = sku}

\* crud.py:9-12  the rows get_product_by_sku's query selects: none for a
\* falsy sku, else those whose lowercased sku equals the lowercased argument.
get_product_by_sku(products, sku) ==
    IF ~Truthy(sku) THEN {}
    ELSE {p \in products : Lower(p.sku) = Lower(sku)}

\* .first() of a query without ORDER BY: the possible results, each {} (for
\* None) or one of the selected rows.
First(selected) ==
    IF selected = {} THEN {{}} ELSE {{p} : p \in selected}

\* models.py:10  integer primary key, assigned by the store on insert.
NextId(products) ==
    IF products = {} THEN 1
    ELSE 1 + (CHOOSE m \in {p.id : p \in products} :
                 \A q \in products : q.id <= m)

\* models.py:11  sku is unique=True: the store compares the strings as
\* written (no lowercasing).
UniqueViolation(products, sku) == \E p \in products : p.sku = sku

\* The update assigning name without the test of crud.py:58.
ApplyRow_overwrite(p, row) ==
    [p EXCEPT
       !.name = RowName(row),
       !.description =
           IF RowDescription(row) # None THEN RowDescription(row) ELSE @,
       !.price = IF RowPrice(row) # None THEN RowPrice(row) ELSE @,
       !.active = IF RowActive(row) # None THEN RowActive(row) = "True" ELSE @]

\* crud.py:58-65  the fields a row assigns to the product it found.
ApplyRow(p, row) ==
    [p EXCEPT
       !.name = IF RowName(row) # None THEN RowName(row) ELSE @,
       !.description =
           IF RowDescription(row) # None THEN RowDescription(row) ELSE @,
       !.price = IF RowPrice(row) # None THEN RowPrice(row) ELSE @,
       !.active = IF RowActive(row) # None THEN RowActive(row) = "True" ELSE @]

\* crud.py:70-76  the product a row creates.
RowProduct(id, row) ==
    NewProduct(id, RowSku(row), RowName(row), RowDescription(row),
               RowPrice(row),
               IF RowActive(row) # None THEN RowActive(row) = "True" ELSE TRUE)

\* crud.py:66 / 78  db.commit() of an UPDATE of the row with p's id.
CommitUpdate(products, p) ==
    {IF q.id = p.id THEN p ELSE q : q \in products}

\* crud.py:77-78  db.add(new); db.commit() once the store accepted the row.
CommitInsert(products, p) == products \cup {p}

\* ------------------------------------------------------ progress tracker
RECURSIVE Gcd(_, _)
Gcd(a, b) == IF b = 0 THEN a ELSE Gcd(b, a % b)

\* A progress value (a Python float) as a fraction in lowest terms.
Frac(n, d) ==
    IF n = 0 THEN [n |-> 0, d |-> 1]
    ELSE [n |-> n \div Gcd(n, d), d |-> d \div Gcd(n, d)]
Leq(a, b) == a.n * b.d <= b.n * a.d

\* main.py:83  progress = (processed / total * 100) if total else 0.0
progress_full(processed, total) ==
    IF total # 0 THEN Frac(processed * 100, total) ELSE Frac(0, 1)

\* The progress of the last batch with one row more than were processed.
progress_last_ahead(processed, total) ==
    IF total # 0 THEN Frac((processed + 1) * 100, total) ELSE Frac(100, 1)

\* main.py:97  progress = (processed / total * 100) if total else 100.0
progress_last(processed, total) ==
    IF total # 0 THEN Frac(processed * 100, total) ELSE Frac(100, 1)

\* A message text; n is the number an f-string formats into it.
Msg(text, n) == [text |-> text, n |-> n]

\* set_progress rebinding the store to a dictionary of the one task written.
set_progress_rebind(store, task_id, progress, status, message) ==
    [k \in {task_id} |->
        [task_id |-> task_id, progress |-> progress,
         status |-> status, message |-> message]]

\* set_progress storing the one new dictionary under every key.
set_progress_shared(store, task_id, progress, status, message) ==
    [k \in DOMAIN store \cup {task_id} |->
        [task_id |-> task_id, progress |-> progress,
         status |-> status, message |-> message]]

\* utils.py:15-28  the store after set_progress (updated_at left out).
set_progress(store, task_id, progress, status, message) ==
    [k \in DOMAIN store \cup {task_id} |->
        IF k = task_id
        THEN [task_id |-> task_id, progress |-> progress,
              status |-> status, message |-> message]
        ELSE store[k]]

\* get_progress without the default of utils.py:34: the value of
\* _progress_store.get(task_id) as it is, None for an unknown task.
get_progress_nodefault(store, task_id) ==
    IF task_id \in DOMAIN store THEN store[task_id]
    ELSE [task_id |-> None, progress |-> Frac(0, 1),
          status |-> None, message |-> Msg(None, 0)]

\* utils.py:30-35
get_progress(store, task_id) ==
    IF task_id \in DOMAIN store THEN store[task_id]
    ELSE [task_id |-> task_id, progress |-> Frac(0, 1),
          status |-> "pending", message |-> Msg("", 0)]

\* The names of uploaded files, as sequences of characters: a.csv, a.CSV,
\* a.txt, a.xls and csv.
Filenames ==
    { <<"a", ".", "c", "s", "v">>, <<"a", ".", "C", "S", "V">>,
      <<"a", ".", "t", "x", "t">>, <<"a", ".", "x", "l", "s">>,
      <<"c", "s", "v">> }

\* str.lower() and str.endswith() on a name.
LowerName(name) == [i \in DOMAIN name |-> Lower(name[i])]
EndsWith(name, suffix) ==
    /\ Len(name) >= Len(suffix)
    /\ SubSeq(name, Len(name) - Len(suffix) + 1, Len(name)) = suffix

\* An upload taken whatever the file is called.
Accepted_any(name) == TRUE

\* main.py:30  file.filename.lower().endswith((".csv", ".txt"))
Accepted(name) ==
    \/ EndsWith(LowerName(name), <<".", "c", "s", "v">>)
    \/ EndsWith(LowerName(name), <<".", "t", "x", "t">>)

\* ---------------------------------------------------------------- state
VARIABLES
    loop,            \* the upload coroutines running on the event loop: {} or {t}
    pc,              \* pc[t]: position of upload t in upload_csv
    filename,        \* filename[t]: file.filename, <<>> when not in use
    file,            \* file[t]: the uploaded file, its lines and data rows
    nleft,           \* nleft[t]: rows the csv reader has not yielded yet
    total,           \* total[t]: main.py:53-59
    processed,       \* processed[t]: main.py:63
    batch,           \* batch[t]: main.py:61
    branch,          \* branch[t]: "full" (main.py:67-84) or "last" (main.py:86-98)
    idx,             \* idx[t]: position of `for r in batch`
    sess,            \* sess[t]: the batch's Session: none, active, inactive, down
    existing,        \* existing[t]: crud.py:56, {} for None
    last,            \* last[t]: how the latest create_or_update_by_sku ended
    progress_store,  \* utils.py:9 _progress_store
    writes,          \* writes[t]: the snapshots set_progress wrote for t, in order
    products,        \* the committed rows of table products
    webhooks,        \* the committed rows of table webhooks
    req,             \* req[r]: a request served by a thread-pool worker
    lock,            \* utils.py:10 _lock: the threads holding it
    wr,              \* the thread in set_progress: its position and call
    rd               \* rd[g]: a thread in utils.get_progress

tvars == <<pc, filename, file, nleft, total, processed, batch, branch, idx, sess,
           existing, last>>
kvars == <<lock, wr, rd>>
vars == <<loop, pc, filename, file, nleft, total, processed, batch, branch, idx, sess,
          existing, last, progress_store, writes, products, webhooks, req, lock,
          wr, rd>>

\* The threads that call utils.get_progress.
Readers == {"g1", "g2"}

IdleReader == [pc |-> "idle", task |-> "", data |-> get_progress(<<>>, "")]

IdleReq == [st |-> "idle", kind |-> "none", sku |-> "", task |-> "",
            res |-> "", snap |-> get_progress(<<>>, ""),
            confirm |-> "", enabled |-> TRUE, items |-> <<>>, n |-> 0]

Init ==
    /\ loop = {}
    /\ pc = [t \in Tasks |-> "idle"]
    /\ filename = [t \in Tasks |-> <<>>]
    /\ file = [t \in Tasks |-> [lines |-> 0, rows |-> 0]]
    /\ nleft = [t \in Tasks |-> 0]
    /\ total = [t \in Tasks |-> 0]
    /\ processed = [t \in Tasks |-> 0]
    /\ batch = [t \in Tasks |-> <<>>]
    /\ branch = [t \in Tasks |-> "full"]
    /\ idx = [t \in Tasks |-> 1]
    /\ sess = [t \in Tasks |-> "none"]
    /\ existing = [t \in Tasks |-> {}]
    /\ last = [t \in Tasks |-> "none"]
    /\ progress_store = <<>>
    /\ writes = [t \in Tasks |-> <<>>]
    /\ products = {}
    /\ webhooks = {}
    /\ req = [r \in Reqs |-> IdleReq]
    /\ lock = {}
    /\ wr = [pc |-> "idle", k |-> 0, task |-> "t1"]
    /\ rd = [g \in Readers |-> IdleReader]

\* A call utils.set_progress(task_id, ...) made by upload t.
SetProgress(t, progress, status, message) ==
    /\ progress_store' = set_progress(progress_store, t, progress, status, message)
    /\ writes' = [writes EXCEPT ![t] =
                     Append(@, get_progress(progress_store', t))]

\* The files a client can upload when `room` more data rows may be uploaded:
\* empty, or a header line, rows and blank lines.
Files(room) ==
    {[lines |-> 0, rows |-> 0]} \cup
    {[lines |-> 1 + n + b, rows |-> n] : n \in 0..room, b \in 0..MaxBlank}

\* The data rows uploaded so far.
RECURSIVE Uploaded(_, _)
Uploaded(f, S) ==
    IF S = {} THEN 0
    ELSE LET t == CHOOSE x \in S : TRUE
         IN  f[t].rows + Uploaded(f, S \ {t})

\* upload_csv's local variables are gone once it has returned or raised.
DropLocals(t) ==
    /\ nleft' = [nleft EXCEPT ![t] = 0]
    /\ total' = [total EXCEPT ![t] = 0]
    /\ processed' = [processed EXCEPT ![t] = 0]
    /\ batch' = [batch EXCEPT ![t] = <<>>]
    /\ branch' = [branch EXCEPT ![t] = "full"]
    /\ idx' = [idx EXCEPT ![t] = 1]
    /\ sess' = [sess EXCEPT ![t] = "none"]
    /\ existing' = [existing EXCEPT ![t] = {}]
    /\ last' = [last EXCEPT ![t] = "none"]

\* ------------------------------------------------- POST /upload (main.py)
\* main.py:27-41  the coroutine starts on a free event loop, rejects a file
\* name that does not end in .csv or .txt with 400, else creates the upload
\* file and awaits file.read(), which gives the loop back.
UploadStart(t) ==
    /\ UNCHANGED <<kvars, webhooks>>
    /\ pc[t] = "idle"
    /\ loop = {}
    /\ \E name \in Filenames :
          /\ filename' = [filename EXCEPT ![t] = name]
          /\ pc' = [pc EXCEPT ![t] =
                       IF Accepted(name) THEN "await_read" ELSE "rejected"]
    /\ UNCHANGED <<loop, file, nleft, total, processed, batch, branch, idx, sess,
                   existing, last, progress_store, writes, products, req>>

\* main.py:40-45  the coroutine resumes on the loop with the uploaded content
\* and keeps the loop from here on (upload_csv awaits nothing else); it
\* writes the file, creates the task id and writes started.  The file's
\* name is not used again.
UploadResume(t) ==
    /\ UNCHANGED <<kvars, webhooks>>
    /\ pc[t] = "await_read"
    /\ loop = {}
    /\ loop' = {t}
    /\ filename' = [filename EXCEPT ![t] = <<>>]
    /\ \E f \in Files(MaxRows - Uploaded(file, Tasks)) :
          file' = [file EXCEPT ![t] = f]
    /\ SetProgress(t, Frac(0, 1), "started", Msg("File uploaded, starting import", 0))
    /\ pc' = [pc EXCEPT ![t] = "open"]
    /\ UNCHANGED <<nleft, total, processed, batch, branch, idx, sess,
                   existing, last, products, req>>

\* The handler writing failed and going on to the return of main.py:105.
Fail_answer(t, e) ==
    /\ SetProgress(t, Frac(0, 1), "failed", Msg(e, 0))
    /\ pc' = [pc EXCEPT ![t] = "return"]

\* main.py:101-102  except Exception as e: set_progress(task_id, 0.0, "failed", str(e))
Fail(t, e) ==
    /\ SetProgress(t, Frac(0, 1), "failed", Msg(e, 0))
    /\ pc' = [pc EXCEPT ![t] = "raise"]

\* main.py:50-51  open(file_path) and csv.DictReader(fh); open may raise.
OpenFile(t) ==
    /\ UNCHANGED <<kvars, filename, webhooks>>
    /\ pc[t] = "open"
    /\ loop = {t}
    /\ \/ /\ nleft' = [nleft EXCEPT ![t] = file[t].rows]
          /\ pc' = [pc EXCEPT ![t] = "count"]
          /\ UNCHANGED <<progress_store, writes>>
       \/ /\ Fail(t, "OSError")
          /\ UNCHANGED nleft
    /\ UNCHANGED <<loop, file, total, processed, batch, branch, idx, sess,
                   existing, last, products, req>>

\* main.py:53-59  total = number of lines - 1, or 0 when counting raises.
CountLines(t) ==
    /\ UNCHANGED <<kvars, filename, webhooks>>
    /\ pc[t] = "count"
    /\ loop = {t}
    /\ \/ total' = [total EXCEPT ![t] = file[t].lines - 1]
       \/ total' = [total EXCEPT ![t] = 0]
    /\ pc' = [pc EXCEPT ![t] = "parsing"]
    /\ UNCHANGED <<loop, file, nleft, processed, batch, branch, idx, sess,
                   existing, last, progress_store, writes, products, req>>

\* main.py:61-64
SetParsing(t) ==
    /\ UNCHANGED <<kvars, filename, webhooks>>
    /\ pc[t] = "parsing"
    /\ loop = {t}
    /\ batch' = [batch EXCEPT ![t] = <<>>]
    /\ processed' = [processed EXCEPT ![t] = 0]
    /\ SetProgress(t, Frac(1, 1), "parsing", Msg("Parsing CSV and preparing batches", 0))
    /\ pc' = [pc EXCEPT ![t] = "read"]
    /\ UNCHANGED <<loop, file, nleft, total, branch, idx, sess, existing,
                   last, products, req>>

\* The exhausted reader flushing whatever the batch holds.
AfterReader_flush(b) == "session"

\* The exhausted reader going on without the test of main.py:86.
AfterReader_noflush(b) == "complete"

\* main.py:86, 100  after the loop: `if batch:` flushes what is left, else
\* the import completes.
AfterReader(b) == IF b # <<>> THEN "session" ELSE "complete"

\* main.py:65-67, 86  one turn of `for row in reader`: the reader yields the
\* next row (any row of Rows) or raises csv.Error; a full batch is flushed;
\* when the reader is exhausted a non-empty batch is flushed as the last one.
ReadRow(t) ==
    /\ UNCHANGED <<kvars, filename, webhooks>>
    /\ pc[t] = "read"
    /\ loop = {t}
    /\ \/ /\ nleft[t] > 0
          /\ \E row \in Rows :
                /\ batch' = [batch EXCEPT ![t] = Append(@, row)]
                /\ nleft' = [nleft EXCEPT ![t] = @ - 1]
                /\ IF Len(batch'[t]) >= batch_size
                   THEN /\ pc' = [pc EXCEPT ![t] = "session"]
                        /\ branch' = [branch EXCEPT ![t] = "full"]
                   ELSE UNCHANGED <<pc, branch>>
          /\ UNCHANGED <<progress_store, writes>>
       \/ /\ nleft[t] > 0
          /\ Fail(t, "csv.Error")
          /\ UNCHANGED <<batch, nleft, branch>>
       \/ /\ nleft[t] = 0
          /\ pc' = [pc EXCEPT ![t] = AfterReader(batch[t])]
          /\ branch' = [branch EXCEPT ![t] =
                           IF pc'[t] = "session" THEN "last" ELSE @]
          /\ UNCHANGED <<batch, nleft, progress_store, writes>>
    /\ UNCHANGED <<loop, file, total, processed, idx, sess, existing, last,
                   products, req>>

\* main.py:69-71 / 87-89  db = SessionLocal(); for r in batch:
\* SessionLocal() (database.py:14) builds the Session without connecting; the
\* store is reached, or found unavailable ("down"), by the first query.
OpenSession(t) ==
    /\ UNCHANGED <<kvars, filename, webhooks>>
    /\ pc[t] = "session"
    /\ loop = {t}
    /\ \E s \in {"active", "down"} : sess' = [sess EXCEPT ![t] = s]
    /\ idx' = [idx EXCEPT ![t] = 1]
    /\ pc' = [pc EXCEPT ![t] = "lookup"]
    /\ UNCHANGED <<loop, file, nleft, total, processed, batch, branch,
                   existing, last, progress_store, writes, products, req>>

\* The loop over the batch taking the same row again.
NextRow_again(t) ==
    /\ idx' = idx
    /\ pc' = [pc EXCEPT ![t] = "lookup"]

\* main.py:71-76 / 89-93  the loop over the batch moves to the next row, or
\* leaves the loop after the last one.
NextRow(t) ==
    /\ idx' = [idx EXCEPT ![t] = @ + 1]
    /\ pc' = [pc EXCEPT ![t] =
                 IF idx[t] + 1 > Len(batch[t]) THEN "finish" ELSE "lookup"]

\* A row's exception escaping to main.py:101 instead of being skipped.
SkipRow_abort(t, e) ==
    /\ Fail(t, e)
    /\ UNCHANGED <<idx, last>>

\* main.py:74-76 / 92-93  except Exception: continue
SkipRow(t, e) ==
    /\ last' = [last EXCEPT ![t] = e]
    /\ NextRow(t)
    /\ UNCHANGED <<progress_store, writes>>

\* crud.py:40-56  create_or_update_by_sku up to the lookup: ValueError
\* without a SKU; the query raises on a Session whose transaction a failed
\* flush left inactive (no rollback is issued), and on a Session that cannot
\* reach the store; all are skipped by main.py:74-76.
UpsertLookup(t) ==
    /\ UNCHANGED <<kvars, filename, webhooks>>
    /\ pc[t] = "lookup"
    /\ loop = {t}
    /\ LET row == batch[t][idx[t]]
       IN  IF ~Truthy(RowSku(row))
           THEN /\ SkipRow(t, "ValueError")
                /\ UNCHANGED existing
           ELSE IF sess[t] = "inactive"
           THEN /\ SkipRow(t, "PendingRollbackError")
                /\ UNCHANGED existing
           ELSE IF sess[t] = "down"
           THEN /\ SkipRow(t, "OperationalError")
                /\ UNCHANGED existing
           ELSE \E e \in First(get_product_by_sku(products, RowSku(row))) :
                   /\ existing' = [existing EXCEPT ![t] = e]
                   /\ pc' = [pc EXCEPT ![t] = "write"]
                   /\ UNCHANGED <<idx, last, progress_store, writes>>
    /\ UNCHANGED <<loop, file, nleft, total, processed, batch, branch, sess,
                   products, req>>

\* crud.py:57-80  update the product found, or insert a new one; each is
\* committed at once.  An insert the store rejects (IntegrityError on the
\* unique sku) leaves the Session's transaction inactive.
UpsertWrite(t) ==
    /\ UNCHANGED <<kvars, filename, webhooks>>
    /\ pc[t] = "write"
    /\ loop = {t}
    /\ LET row == batch[t][idx[t]]
       IN  IF existing[t] # {}
           THEN /\ products' =
                     CommitUpdate(products,
                        ApplyRow(CHOOSE p \in products :
                                    \E e \in existing[t] : e.id = p.id, row))
                /\ last' = [last EXCEPT ![t] = "updated"]
                /\ UNCHANGED sess
           ELSE IF UniqueViolation(products, RowSku(row))
           THEN /\ sess' = [sess EXCEPT ![t] = "inactive"]
                /\ last' = [last EXCEPT ![t] = "IntegrityError"]
                /\ UNCHANGED products
           ELSE /\ products' =
                     CommitInsert(products, RowProduct(NextId(products), row))
                /\ last' = [last EXCEPT ![t] = "created"]
                /\ UNCHANGED sess
    /\ NextRow(t)
    /\ UNCHANGED <<loop, file, nleft, total, processed, batch, branch,
                   existing, progress_store, writes, req>>

\* main.py:77-84 / 94-98  close the session, count the batch as processed
\* and write importing.
FinishBatch(t) ==
    /\ UNCHANGED <<kvars, filename, webhooks>>
    /\ pc[t] = "finish"
    /\ loop = {t}
    /\ sess' = [sess EXCEPT ![t] = "none"]
    /\ processed' = [processed EXCEPT ![t] = @ + Len(batch[t])]
    /\ IF branch[t] = "full"
       THEN /\ batch' = [batch EXCEPT ![t] = <<>>]
            /\ SetProgress(t, progress_full(processed'[t], total[t]),
                           "importing", Msg("Processed rows", processed'[t]))
            /\ pc' = [pc EXCEPT ![t] = "read"]
       ELSE /\ UNCHANGED batch
            /\ SetProgress(t, progress_last(processed'[t], total[t]),
                           "importing", Msg("Processed rows", processed'[t]))
            /\ pc' = [pc EXCEPT ![t] = "complete"]
    /\ UNCHANGED <<loop, file, nleft, total, branch, idx, existing, last,
                   products, req>>

\* main.py:100
Complete(t) ==
    /\ UNCHANGED <<kvars, filename, webhooks>>
    /\ pc[t] = "complete"
    /\ loop = {t}
    /\ SetProgress(t, Frac(100, 1), "completed", Msg("Import complete", processed[t]))
    /\ pc' = [pc EXCEPT ![t] = "return"]
    /\ UNCHANGED <<loop, file, nleft, total, processed, batch, branch, idx,
                   sess, existing, last, products, req>>

\* main.py:105  the coroutine returns {task_id, message}: 202, loop free.
Return(t) ==
    /\ UNCHANGED <<kvars, filename, webhooks>>
    /\ pc[t] = "return"
    /\ loop = {t}
    /\ loop' = {}
    /\ pc' = [pc EXCEPT ![t] = "done"]
    /\ DropLocals(t)
    /\ UNCHANGED <<file, progress_store, writes, products, req>>

\* main.py:103  raise HTTPException(status_code=500): loop free.
Raise(t) ==
    /\ UNCHANGED <<kvars, filename, webhooks>>
    /\ pc[t] = "raise"
    /\ loop = {t}
    /\ loop' = {}
    /\ pc' = [pc EXCEPT ![t] = "error"]
    /\ DropLocals(t)
    /\ UNCHANGED <<file, progress_store, writes, products, req>>

\* ------------------------------------------- thread-pool endpoints (main.py)
\* The bodies POST /products can carry.
Payloads == {"ABC"}

\* A client sends POST /products or GET /progress/{task_id}.
ReqArrive(r) ==
    /\ UNCHANGED <<kvars, webhooks>>
    /\ req[r].st = "idle"
    /\ \/ \E s \in Payloads :
             req' = [req EXCEPT ![r] = [@ EXCEPT !.st = "arrived",
                                       !.kind = "create", !.sku = s]]
       \/ \E t \in Tasks :
             req' = [req EXCEPT ![r] = [@ EXCEPT !.st = "arrived",
                                       !.kind = "progress", !.task = t]]
    /\ UNCHANGED <<loop, tvars, progress_store, writes, products>>

\* The event loop can take up other work only while no coroutine runs on it.
LoopFree == loop = {}

\* main.py:109-110, 137-138  endpoints declared with def: the event loop
\* reads the request and hands the call to a worker thread.
Dispatch(r) ==
    /\ UNCHANGED <<kvars, webhooks>>
    /\ req[r].st = "arrived"
    /\ LoopFree
    /\ req' = [req EXCEPT ![r].st = "run"]
    /\ UNCHANGED <<loop, tvars, progress_store, writes, products>>

\* main.py:139-141  create_product: 400 when the SKU is found.
CreateLookup(r) ==
    /\ UNCHANGED <<kvars, webhooks>>
    /\ req[r].st = "run"
    /\ req[r].kind = "create"
    /\ IF get_product_by_sku(products, req[r].sku) # {}
       THEN req' = [req EXCEPT ![r] = [@ EXCEPT !.st = "finished", !.res = "400"]]
       ELSE req' = [req EXCEPT ![r].st = "insert"]
    /\ UNCHANGED <<loop, tvars, progress_store, writes, products>>

\* main.py:142, crud.py:14-25  crud.create_product: insert and commit; an
\* IntegrityError is not handled and answers 500.
CreateInsert(r) ==
    /\ UNCHANGED <<kvars, webhooks>>
    /\ req[r].st = "insert"
    /\ IF UniqueViolation(products, req[r].sku)
       THEN /\ req' = [req EXCEPT ![r] = [@ EXCEPT !.st = "finished", !.res = "500"]]
            /\ UNCHANGED products
       ELSE /\ products' =
                 CommitInsert(products,
                    NewProduct(NextId(products), req[r].sku, None, None, None, TRUE))
            /\ req' = [req EXCEPT ![r] = [@ EXCEPT !.st = "finished", !.res = "200"]]
    /\ UNCHANGED <<loop, tvars, progress_store, writes>>

\* main.py:109-118  get_progress reads the tracker.
ProgressRead(r) ==
    /\ UNCHANGED <<kvars, webhooks>>
    /\ req[r].st = "run"
    /\ req[r].kind = "progress"
    /\ req' = [req EXCEPT ![r] =
                  [@ EXCEPT !.st = "finished", !.res = "200",
                            !.snap = get_progress(progress_store, req[r].task)]]
    /\ UNCHANGED <<loop, tvars, progress_store, writes, products>>

\* The event loop sends the response of a call a worker thread has finished;
\* nothing of the request is kept.
ReqRespond(r) ==
    /\ UNCHANGED <<kvars, webhooks>>
    /\ req[r].st = "finished"
    /\ LoopFree
    /\ req' = [req EXCEPT ![r] = [IdleReq EXCEPT !.st = "done"]]
    /\ UNCHANGED <<loop, tvars, progress_store, writes, products>>

\* ---------------------------------------- catalog endpoints (main.py, crud.py)
\* The values of the query parameter confirm of DELETE /products.
Confirms == {"true", "false", "omitted"}

\* A bulk delete that asks for no confirmation.
Confirmed_always(confirm) == TRUE

\* main.py:162-163  confirm: bool = Query(False); `if not confirm` is 400.
Confirmed(confirm) == confirm = "true"

\* crud.py:97-99  DELETE FROM products, committed: the rows that remain.
bulk_delete_all(ps) == {p \in ps : FALSE}

\* The rows of ps by descending id.
RECURSIVE ById(_)
ById(ps) ==
    IF ps = {} THEN <<>>
    ELSE LET p == CHOOSE x \in ps : \A y \in ps : y.id <= x.id
         IN  <<p>> \o ById(ps \ {p})

\* crud.py:82-91  list_products without filters: order_by(id.desc()),
\* offset(skip), limit(limit).
list_products(ps, skip, limit) ==
    LET all == ById(ps)
        hi == IF skip + limit < Len(all) THEN skip + limit ELSE Len(all)
    IN  SubSeq(all, skip + 1, hi)

\* A client sends DELETE /products, GET /products or POST /webhooks, its
\* first request or one after an answer.
CatalogArrive(r) ==
    /\ req[r].st \in {"idle", "done"}
    /\ \/ \E c \in Confirms :
             req' = [req EXCEPT ![r] = [IdleReq EXCEPT !.st = "arrived",
                                       !.kind = "delete_all", !.confirm = c]]
       \/ req' = [req EXCEPT ![r] = [IdleReq EXCEPT !.st = "arrived",
                                     !.kind = "list"]]
       \/ /\ Cardinality(webhooks) < MaxHooks
          /\ \E e \in BOOLEAN :
                req' = [req EXCEPT ![r] = [IdleReq EXCEPT !.st = "arrived",
                                          !.kind = "webhook", !.enabled = e]]
    /\ UNCHANGED <<loop, tvars, progress_store, writes, products, webhooks, kvars>>

\* main.py:161-166  delete_all_products: 400 unless confirm is true, else
\* crud.bulk_delete_all; n is the number of rows the DELETE matched.
DeleteAll(r) ==
    /\ req[r].st = "run"
    /\ req[r].kind = "delete_all"
    /\ IF ~Confirmed(req[r].confirm)
       THEN /\ req' = [req EXCEPT ![r] = [@ EXCEPT !.st = "finished", !.res = "400"]]
            /\ UNCHANGED products
       ELSE /\ products' = bulk_delete_all(products)
            /\ req' = [req EXCEPT ![r] = [@ EXCEPT !.st = "finished", !.res = "200",
                                          !.n = Cardinality(products)]]
    /\ UNCHANGED <<loop, tvars, progress_store, writes, webhooks, kvars>>

\* main.py:122-135  list_products with skip = 0, limit = 50 and no filter.
ListProducts(r) ==
    /\ req[r].st = "run"
    /\ req[r].kind = "list"
    /\ req' = [req EXCEPT ![r] = [@ EXCEPT !.st = "finished", !.res = "200",
                                  !.items = list_products(products, 0, 50)]]
    /\ UNCHANGED <<loop, tvars, progress_store, writes, products, webhooks, kvars>>

\* main.py:170-173, crud.py:102-107  add_webhook: insert and commit.
AddWebhook(r) ==
    /\ req[r].st = "run"
    /\ req[r].kind = "webhook"
    /\ webhooks' = webhooks \cup
          {[id |-> Cardinality(webhooks) + 1, enabled |-> req[r].enabled]}
    /\ req' = [req EXCEPT ![r] = [@ EXCEPT !.st = "finished", !.res = "200"]]
    /\ UNCHANGED <<loop, tvars, progress_store, writes, products, kvars>>

\* ------------------------------------------- the tracker's lock (utils.py)
\* The set_progress calls of an import of one row, in order: main.py:45, 64,
\* 98, 100.
Script ==
    << [progress |-> Frac(0, 1), status |-> "started",
        message |-> Msg("File uploaded, starting import", 0)],
       [progress |-> Frac(1, 1), status |-> "parsing",
        message |-> Msg("Parsing CSV and preparing batches", 0)],
       [progress |-> Frac(100, 1), status |-> "importing",
        message |-> Msg("Processed rows", 1)],
       [progress |-> Frac(100, 1), status |-> "completed",
        message |-> Msg("Import complete", 1)] >>

\* A lock that never makes a thread wait.
Unlocked_always == TRUE

\* utils.py:10, 21, 31  threading.Lock: `with _lock` goes on when no thread
\* holds the lock.
Unlocked == lock = {}

\* main.py:45-100  the import calls utils.set_progress for its task; after
\* its last call the event loop's thread runs the import of the next upload.
WCall ==
    /\ wr.pc = "idle"
    /\ wr.k < Len(Script) \/ wr.task = "t1"
    /\ wr' = IF wr.k < Len(Script)
             THEN [wr EXCEPT !.pc = "acquire", !.k = @ + 1]
             ELSE [pc |-> "acquire", k |-> 1, task |-> "t2"]
    /\ UNCHANGED <<loop, tvars, progress_store, writes, products, webhooks,
                   req, lock, rd>>

\* utils.py:21  with _lock:
WAcquire ==
    /\ wr.pc = "acquire"
    /\ Unlocked
    /\ lock' = lock \cup {"w"}
    /\ wr' = [wr EXCEPT !.pc = "store"]
    /\ UNCHANGED <<loop, tvars, progress_store, writes, products,
                   webhooks, req, rd>>

\* utils.py:22-28  _progress_store[task_id] = {...}: the new dictionary is
\* built and then stored under the key in one assignment.
WStore ==
    /\ wr.pc = "store"
    /\ SetProgress(wr.task, Script[wr.k].progress, Script[wr.k].status,
                   Script[wr.k].message)
    /\ wr' = [wr EXCEPT !.pc = "release"]
    /\ UNCHANGED <<loop, tvars, products, webhooks,
                   req, lock, rd>>

\* utils.py:21-28  leaving the with block releases the lock.
WRelease ==
    /\ wr.pc = "release"
    /\ lock' = lock \ {"w"}
    /\ wr' = [wr EXCEPT !.pc = "idle"]
    /\ UNCHANGED <<loop, tvars, progress_store, writes, products,
                   webhooks, req, rd>>

\* main.py:111  a worker thread calls utils.get_progress(task_id).
GCall(g) ==
    /\ rd[g].pc \in {"idle", "returned"}
    /\ \E t \in Tasks :
          rd' = [rd EXCEPT ![g] = [IdleReader EXCEPT !.pc = "acquire", !.task = t]]
    /\ UNCHANGED <<loop, tvars, progress_store, writes, products, webhooks,
                   req, lock, wr>>

\* utils.py:31  with _lock:
GAcquire(g) ==
    /\ rd[g].pc = "acquire"
    /\ Unlocked
    /\ lock' = lock \cup {g}
    /\ rd' = [rd EXCEPT ![g].pc = "get"]
    /\ UNCHANGED <<loop, tvars, progress_store, writes, products,
                   webhooks, req, wr>>

\* utils.py:32-35  data = _progress_store.get(task_id), or the default.
GGet(g) ==
    /\ rd[g].pc = "get"
    /\ rd' = [rd EXCEPT ![g] = [@ EXCEPT !.pc = "release",
                    !.data = get_progress(progress_store, rd[g].task)]]
    /\ UNCHANGED <<loop, tvars, progress_store, writes, products, webhooks,
                   req, lock, wr>>

\* utils.py:31-35  returning leaves the with block and releases the lock.
GRelease(g) ==
    /\ rd[g].pc = "release"
    /\ lock' = lock \ {g}
    /\ rd' = [rd EXCEPT ![g].pc = "returned"]
    /\ UNCHANGED <<loop, tvars, progress_store, writes, products,
                   webhooks, req, wr>>

\* ------------------------------------------------------------ behaviours
\* A step of upload_csv for upload t.
UploadStep(t) ==
    \/ UploadStart(t)
    \/ UploadResume(t)
    \/ OpenFile(t)
    \/ CountLines(t)
    \/ SetParsing(t)
    \/ ReadRow(t)
    \/ OpenSession(t)
    \/ UpsertLookup(t)
    \/ UpsertWrite(t)
    \/ FinishBatch(t)
    \/ Complete(t)
    \/ Return(t)
    \/ Raise(t)

\* A step of a request served by a worker thread.
ThreadStep(r) ==
    \/ ReqArrive(r)
    \/ Dispatch(r)
    \/ CreateLookup(r)
    \/ CreateInsert(r)
    \/ ProgressRead(r)
    \/ ReqRespond(r)

\* The server: any uploads, any thread-pool requests.
Next ==
    \/ \E t \in Tasks : UploadStep(t)
    \/ \E r \in Reqs : ThreadStep(r)

Spec == Init /\ [][Next]_vars

\* The server when clients make one upload and thread-pool requests.
NextServer ==
    \/ UploadStep("t1")
    \/ \E r \in Reqs : ThreadStep(r)

SpecServer == Init /\ [][NextServer]_vars

\* The server when clients make uploads only.
NextUploads == \E t \in Tasks : UploadStep(t)

SpecUploads == Init /\ [][NextUploads]_vars

\* The catalog: clients of the product and webhook endpoints, one request
\* after another.
NextCatalog ==
    \E r \in Reqs :
        \/ ThreadStep(r)
        \/ CatalogArrive(r)
        \/ DeleteAll(r)
        \/ ListProducts(r)
        \/ AddWebhook(r)

SpecCatalog == Init /\ [][NextCatalog]_vars

\* The values of the columns active and Active of a row: absent, empty,
\* a space, tokens of crud.py:51 as written, padded and in capitals, others.
ActiveValues == {None, "", " ", "0", " No ", "FALSE", "n", "yes", "1"}

\* One-row files for SKU ABC with any of these values in the two columns.
ActiveRows ==
    { [EmptyRow EXCEPT !.sku = "ABC", !.active = a, !.Active = b] :
         a \in ActiveValues, b \in ActiveValues }

\* The catalog before such a file is imported: empty, or product abc stored
\* active or inactive.
Stores ==
    { {} } \cup
    { {NewProduct(1, "abc", "n1", None, None, a)} : a \in BOOLEAN }

\* The tracker after main.py:45 and 64 for upload t.
Parsing(t) ==
    set_progress(
        set_progress(<<>>, t, Frac(0, 1), "started",
                     Msg("File uploaded, starting import", 0)),
        t, Frac(1, 1), "parsing", Msg("Parsing CSV and preparing batches", 0))

\* Upload t1 at main.py:86-87 with the one row of its file in the batch.
InitActive ==
    /\ loop = {"t1"}
    /\ pc = [t \in Tasks |-> IF t = "t1" THEN "session" ELSE "idle"]
    /\ filename = [t \in Tasks |-> <<>>]
    /\ file = [t \in Tasks |-> IF t = "t1" THEN [lines |-> 2, rows |-> 1]
                                ELSE [lines |-> 0, rows |-> 0]]
    /\ nleft = [t \in Tasks |-> 0]
    /\ total = [t \in Tasks |-> IF t = "t1" THEN 1 ELSE 0]
    /\ processed = [t \in Tasks |-> 0]
    /\ \E row \in ActiveRows :
          batch = [t \in Tasks |-> IF t = "t1" THEN <<row>> ELSE <<>>]
    /\ branch = [t \in Tasks |-> IF t = "t1" THEN "last" ELSE "full"]
    /\ idx = [t \in Tasks |-> 1]
    /\ sess = [t \in Tasks |-> "none"]
    /\ existing = [t \in Tasks |-> {}]
    /\ last = [t \in Tasks |-> "none"]
    /\ progress_store = Parsing("t1")
    /\ writes = [t \in Tasks |->
                   IF t = "t1"
                   THEN << get_progress(set_progress(<<>>, t, Frac(0, 1),
                              "started",
                              Msg("File uploaded, starting import", 0)), t),
                           get_progress(Parsing(t), t) >>
                   ELSE <<>>]
    /\ products \in Stores
    /\ webhooks = {}
    /\ req = [r \in Reqs |-> IdleReq]
    /\ lock = {}
    /\ wr = [pc |-> "idle", k |-> 0, task |-> "t1"]
    /\ rd = [g \in Readers |-> IdleReader]

\* The import of the one-row file from its last batch on.
NextActive ==
    \/ OpenSession("t1")
    \/ UpsertLookup("t1")
    \/ UpsertWrite("t1")
    \/ FinishBatch("t1")
    \/ Complete("t1")
    \/ Return("t1")

SpecActive == InitActive /\ [][NextActive]_vars

\* The tracker: the thread of an import writing its snapshots, worker
\* threads reading snapshots.
NextTracker ==
    \/ WCall
    \/ WAcquire
    \/ WStore
    \/ WRelease
    \/ \E g \in Readers : GCall(g) \/ GAcquire(g) \/ GGet(g) \/ GRelease(g)

SpecTracker == Init /\ [][NextTracker]_vars

\* upload_csv from main.py:49 on: it awaits nothing, so the coroutine that
\* has written started runs on its thread until it returns or raises.
Run(t) ==
    \/ OpenFile(t)
    \/ CountLines(t)
    \/ SetParsing(t)
    \/ ReadRow(t)
    \/ OpenSession(t)
    \/ UpsertLookup(t)
    \/ UpsertWrite(t)
    \/ FinishBatch(t)
    \/ Complete(t)
    \/ Return(t)
    \/ Raise(t)

\* The server with clients, where the running import is never suspended
\* forever: the event loop's thread keeps executing the coroutine.
SpecServerFair == SpecServer /\ WF_vars(Run("t1"))

\* ---------------------------------------------------------------- claims
Terminal == {"completed", "failed"}

\* C1: the progress values written for a task never decrease from one write
\* to the next, except in the write of status failed.
C1_ProgressNonDecreasing ==
    \A t \in Tasks : \A i \in 1..(Len(writes[t]) - 1) :
        \/ Leq(writes[t][i].progress, writes[t][i + 1].progress)
        \/ writes[t][i + 1].status = "failed"

\* C2: once a task's snapshot is completed or failed, no step writes that
\* task again and get_progress keeps returning that snapshot.
C2_TerminalIsFinal ==
    [][\A t \in Tasks :
          get_progress(progress_store, t).status \in Terminal
          => /\ get_progress(progress_store', t) = get_progress(progress_store, t)
             /\ writes'[t] = writes[t]]_vars

\* A task is terminal while another import is writing importing.
C2_Witness ==
    \E t, u \in Tasks :
        /\ get_progress(progress_store, t).status \in Terminal
        /\ get_progress(progress_store, u).status = "importing"

\* The steps of started -> parsing -> importing* -> completed | failed.
ChainSteps ==
    { <<"started", "parsing">>, <<"parsing", "importing">>,
      <<"importing", "importing">>, <<"parsing", "completed">>,
      <<"importing", "completed">>, <<"parsing", "failed">>,
      <<"importing", "failed">> }

\* completed is written with every data row of the file processed, right
\* after the importing write of the last batch when the file has rows.
CompletedAfterLastFlush(t) ==
    \A i \in 1..Len(writes[t]) :
        writes[t][i].status = "completed"
        => /\ writes[t][i].message.n = file[t].rows
           /\ file[t].rows > 0
              => /\ writes[t][i - 1].status = "importing"
                 /\ writes[t][i - 1].message.n = file[t].rows

\* C3 as stated: started is the first status written and every next status
\* follows the chain, so parsing comes exactly once, before any importing
\* and before either terminal status.
C3_StateMachine ==
    \A t \in Tasks :
        /\ Len(writes[t]) >= 1 => writes[t][1].status = "started"
        /\ \A i \in 1..(Len(writes[t]) - 1) :
              <<writes[t][i].status, writes[t][i + 1].status>> \in ChainSteps
        /\ CompletedAfterLastFlush(t)

\* C3 amended: as C3, and failed may also follow started directly (the
\* uploaded file cannot be opened), parsing then being never written.
C3_StateMachineAmended ==
    \A t \in Tasks :
        /\ Len(writes[t]) >= 1 => writes[t][1].status = "started"
        /\ \A i \in 1..(Len(writes[t]) - 1) :
              <<writes[t][i].status, writes[t][i + 1].status>>
                  \in ChainSteps \cup {<<"started", "failed">>}
        /\ CompletedAfterLastFlush(t)

\* An import of a full and a last batch has completed.
C3_Witness ==
    \E t \in Tasks :
        [i \in 1..Len(writes[t]) |-> writes[t][i].status]
            = <<"started", "parsing", "importing", "importing", "completed">>

\* Upload t takes a step of its loop over the batch.
Moves(t) == pc'[t] # pc[t] \/ idx'[t] # idx[t]

\* C4: a row none of whose SKU headers carries a non-empty value is skipped:
\* its step changes no product and nothing the other rows depend on (the
\* session, the batch), and the import goes on to the next row.
C4_MissingSkuSkipped ==
    [][\A t \in Tasks :
          (/\ pc[t] = "lookup"
           /\ ~Truthy(batch[t][idx[t]].sku)
           /\ ~Truthy(batch[t][idx[t]].SKU)
           /\ ~Truthy(batch[t][idx[t]].Sku)
           /\ Moves(t))
          => /\ products' = products
             /\ sess'[t] = sess[t]
             /\ batch'[t] = batch[t]
             /\ idx'[t] = idx[t] + 1
             /\ pc'[t] \in {"lookup", "finish"}
             /\ writes' = writes
             /\ progress_store' = progress_store]_vars

\* A batch whose first row has no SKU and whose second row was created.
C4_Witness ==
    \E t \in Tasks :
        /\ pc[t] = "finish"
        /\ Len(batch[t]) = 2
        /\ ~Truthy(RowSku(batch[t][1]))
        /\ last[t] = "created"
        /\ \E p \in products : p.sku = RowSku(batch[t][2])

\* C5: a row with a SKU is skipped only when its own insert or commit is
\* rejected; a failure of an earlier row of the batch does not skip it.
C5_OnlyFailedRowSkipped ==
    \A t \in Tasks :
        (/\ pc[t] \in {"lookup", "finish"}
         /\ idx[t] > 1
         /\ Truthy(RowSku(batch[t][idx[t] - 1])))
        => last[t] \in {"created", "updated", "IntegrityError"}

\* C6: no two stored products have SKUs that are equal after lowercasing.
C6_SkuUnique ==
    \A p, q \in products : Lower(p.sku) = Lower(q.sku) => p = q

\* The value a row provides under either spelling of a header, None if blank.
Provided(row, lo, up) ==
    IF Truthy(row[lo]) THEN row[lo]
    ELSE IF Truthy(row[up]) THEN row[up] ELSE None

\* The stored product upload t found, before and after its write.
Found(t) == CHOOSE p \in products : \E e \in existing[t] : e.id = p.id
FoundAfter(t) == CHOOSE p \in products' : \E e \in existing[t] : e.id = p.id

\* C7: an upsert whose SKU equals a stored one ignoring case finds that
\* product, creates no record, and leaves each field the row provides at
\* the row's value.
C7_LastWriteWins ==
    [][\A t \in Tasks :
          /\ (pc[t] = "lookup" /\ pc'[t] = "write")
             => (existing'[t] = {} <=>
                    ~\E p \in products :
                        Lower(p.sku) = Lower(RowSku(batch[t][idx[t]])))
          /\ (pc[t] = "write" /\ Moves(t) /\ existing[t] # {})
             => LET row == batch[t][idx[t]]
                IN  /\ {p.id : p \in products'} = {p.id : p \in products}
                    /\ Cardinality(products') = Cardinality(products)
                    /\ Provided(row, "name", "Name") # None
                       => FoundAfter(t).name = Provided(row, "name", "Name")
                    /\ Provided(row, "description", "Description") # None
                       => FoundAfter(t).description =
                             Provided(row, "description", "Description")
                    /\ Provided(row, "price", "Price") # None
                       => FoundAfter(t).price = Provided(row, "price", "Price")
                    /\ Provided(row, "active", "Active") # None
                       => FoundAfter(t).active =
                             (Lower(Strip(Provided(row, "active", "Active")))
                                 \notin {"0", "false", "no", "n"})]_vars

\* The row SKU=abc, Name=n2, active=No has updated the one product ABC.
C7_Witness ==
    \E t \in Tasks :
        /\ pc[t] \in {"lookup", "finish"}
        /\ idx[t] > 1
        /\ last[t] = "updated"
        /\ RowSku(batch[t][idx[t] - 1]) = "abc"
        /\ Cardinality(products) = 1
        /\ \E p \in products : p.sku = "ABC" /\ p.name = "n2" /\ ~p.active

\* C8: an upsert of an existing product keeps every field for which the row
\* has no non-blank value, keeps the id and the stored sku, and changes no
\* other product; no step changes the id or sku of a stored product.
C8_PartialUpdate ==
    [][/\ \A p \in products : \E q \in products' : q.id = p.id /\ q.sku = p.sku
       /\ \A t \in Tasks :
             (pc[t] = "write" /\ Moves(t) /\ existing[t] # {})
             => LET row == batch[t][idx[t]]
                IN  /\ FoundAfter(t).sku = Found(t).sku
                    /\ products' \ {FoundAfter(t)} = products \ {Found(t)}
                    /\ Provided(row, "name", "Name") = None
                       => FoundAfter(t).name = Found(t).name
                    /\ Provided(row, "description", "Description") = None
                       => FoundAfter(t).description = Found(t).description
                    /\ Provided(row, "price", "Price") = None
                       => FoundAfter(t).price = Found(t).price
                    /\ Provided(row, "active", "Active") = None
                       => FoundAfter(t).active = Found(t).active]_vars

\* The row Sku=abc with a blank name has updated product ABC, whose name
\* and price are still those of the row that created it.
C8_Witness ==
    \E t \in Tasks :
        /\ pc[t] \in {"lookup", "finish"}
        /\ idx[t] > 1
        /\ last[t] = "updated"
        /\ batch[t][idx[t] - 1].name = ""
        /\ \E p \in products :
              /\ p.sku = "ABC" /\ p.name = "n1" /\ p.price = "p1"
              /\ p.description = "d1"

\* An import has written started and no terminal status yet.
InFlight(t) ==
    get_progress(progress_store, t).status \in {"started", "parsing", "importing"}

\* C9: while an import is in flight, a request that has arrived can be
\* handed to a worker and a finished call can be answered.
C9_NotBlocked ==
    \A r \in Reqs : \A t \in Tasks :
        InFlight(t)
        => /\ req[r].st = "arrived" => ENABLED Dispatch(r)
           /\ req[r].st = "finished" => ENABLED ReqRespond(r)

\* C10: a batch is committed once, after its last row: an upsert that is
\* followed by another row with a SKU in the same batch leaves the committed
\* products as they were, so no reader sees a batch half applied.
C10_BatchAtomic ==
    [][\A t \in Tasks :
          (/\ pc[t] = "write"
           /\ pc'[t] = "lookup"
           /\ Truthy(RowSku(batch[t][idx[t] + 1])))
          => products' = products]_vars

\* The latest snapshot written for upload t.
LastWrite(t) == writes[t][Len(writes[t])]

\* The texts of the exceptions that reach main.py:101.
Escaping == {"OSError", "csv.Error"}

\* C11: when an exception ends the pipeline (the file is unreadable, the
\* store is unavailable in a batch's session), the task's last snapshot is
\* failed with progress 0.0 and the error text, written before the endpoint
\* answers 500, and the task does not end in completed.
C11_PipelineFailure ==
    \A t \in Tasks :
        /\ pc[t] \in {"raise", "error"}
           => /\ LastWrite(t).status = "failed"
              /\ LastWrite(t).progress = Frac(0, 1)
              /\ LastWrite(t).message.text \in Escaping
              /\ \A i \in 1..Len(writes[t]) : writes[t][i].status # "completed"
        /\ last[t] = "OperationalError"
           => /\ Len(writes[t]) >= 1
              /\ LastWrite(t).status # "completed"

\* The number of terminal statuses among the snapshots ws.
RECURSIVE Terminals(_)
Terminals(ws) ==
    IF ws = <<>> THEN 0
    ELSE (IF ws[Len(ws)].status \in Terminal THEN 1 ELSE 0)
         + Terminals(SubSeq(ws, 1, Len(ws) - 1))

\* C12: an import that has written started goes on to write a terminal
\* status, completed or failed, and writes no more than one; no step of a
\* client keeps its task in started, parsing or importing forever.
C12_ImportTerminates ==
    /\ [](\A t \in Tasks : Terminals(writes[t]) <= 1)
    /\ \A t \in Tasks :
          (Len(writes[t]) >= 1) ~> (Terminals(writes[t]) = 1)

\* An import has ended while a client's request was being served.
C12_Witness ==
    /\ pc["t1"] \in {"done", "error"}
    /\ Terminals(writes["t1"]) = 1
    /\ \E r \in Reqs : req[r].st \in {"arrived", "finished"}

\* C13: GET /progress/{task_id} answers 200 with the default snapshot
\* (progress 0.0, status pending, empty message) for a task id no
\* set_progress has written, and with the snapshot of the latest
\* set_progress of that id otherwise.
C13_ReadLatest ==
    [][\A r \in Reqs :
          (req[r].st = "run" /\ req[r].kind = "progress"
               /\ req'[r].st = "finished")
          => /\ req'[r].res = "200"
             /\ req'[r].snap =
                   IF writes[req[r].task] = <<>>
                   THEN [task_id |-> req[r].task, progress |-> Frac(0, 1),
                         status |-> "pending", message |-> Msg("", 0)]
                   ELSE LastWrite(req[r].task)]_vars

\* A client has read the snapshot of an import at work.
C13_Witness ==
    \E r \in Reqs :
        /\ req[r].st = "finished"
        /\ req[r].kind = "progress"
        /\ req[r].snap.status = "importing"
        /\ req[r].snap = LastWrite(req[r].task)

\* The default snapshot of utils.py:34 for task id t.
Pending(t) ==
    [task_id |-> t, progress |-> Frac(0, 1), status |-> "pending",
     message |-> Msg("", 0)]

\* The snapshots the set_progress calls of Script write for task id t.
Written(t) ==
    { [task_id |-> t, progress |-> Script[i].progress,
       status |-> Script[i].status, message |-> Script[i].message] :
          i \in 1..Len(Script) }

\* C14: while the writer is inside set_progress's locked block no reader is
\* inside get_progress's, and what a reader obtains is the default pending
\* snapshot or the whole snapshot of one set_progress call, never fields of
\* two calls.
C14_LockedWholeSnapshots ==
    /\ wr.pc \in {"store", "release"}
       => \A g \in Readers : rd[g].pc \notin {"get", "release"}
    /\ \A g \in Readers :
          rd[g].pc \in {"release", "returned"}
          => \/ rd[g].data = Pending(rd[g].task)
             \/ rd[g].data \in Written(rd[g].task)

\* A reader holds the lock with the parsing snapshot in hand while the
\* writer waits for the lock and another reader has got the default one.
C14_Witness ==
    /\ wr.pc = "acquire"
    /\ rd["g1"].pc = "release"
    /\ rd["g1"].data.status = "parsing"
    /\ rd["g2"].pc = "returned"
    /\ rd["g2"].data.status = "pending"

\* The three snapshots of an import of no rows: main.py:45, 64, 100.
EmptyImport(t) ==
    << [task_id |-> t, progress |-> Frac(0, 1), status |-> "started",
        message |-> Msg("File uploaded, starting import", 0)],
       [task_id |-> t, progress |-> Frac(1, 1), status |-> "parsing",
        message |-> Msg("Parsing CSV and preparing batches", 0)],
       [task_id |-> t, progress |-> Frac(100, 1), status |-> "completed",
        message |-> Msg("Import complete", 0)] >>

\* C15: the import of a file without data rows, be it empty or a header
\* line (and blank lines), opens no batch session and writes no importing
\* snapshot; it ends completed with progress 100 and 0 rows processed, fails
\* only if the uploaded file cannot be opened, and changes no product.
C15_EmptyFile ==
    /\ [](\A t \in Tasks :
            (file[t].rows = 0 /\ pc[t] \notin {"idle", "rejected", "await_read"})
            => /\ pc[t] \notin {"session", "lookup", "write", "finish"}
               /\ \A i \in 1..Len(writes[t]) : writes[t][i].status # "importing"
               /\ pc[t] \in {"return", "done"} => writes[t] = EmptyImport(t)
               /\ pc[t] \in {"raise", "error"}
                  => LastWrite(t).message.text = "OSError")
    /\ [][\A t \in Tasks :
             (pc'[t] # pc[t] /\ file'[t].rows = 0) => products' = products]_vars

\* A file without data rows has been imported and the catalog holds the
\* products of another file.
C15_Witness ==
    /\ products # {}
    /\ \E t \in Tasks :
          /\ pc[t] = "done"
          /\ file[t].rows = 0
          /\ writes[t] = EmptyImport(t)

\* The rows flushed by the first k batches of a file of n rows.
Flushed(k, n) == IF k * batch_size < n THEN k * batch_size ELSE n

\* C16: a file of N data rows is flushed in ceil(N/batch_size) batches, all
\* of batch_size rows but a last one of the rest; the k-th flush is followed
\* by an importing snapshot with the rows flushed so far as processed and
\* progress processed/N*100 (0 or 100 standing in when the count of the
\* rows failed), and completed follows the last flush.
C16_FlushesAndProgress ==
    \A t \in Tasks :
        \A i \in 1..Len(writes[t]) :
            /\ writes[t][i].status = "importing"
               => /\ (i - 3) * batch_size < file[t].rows
                  /\ writes[t][i].message.n = Flushed(i - 2, file[t].rows)
                  /\ writes[t][i].progress \in
                        { Frac(Flushed(i - 2, file[t].rows) * 100, file[t].rows),
                          Frac(0, 1), Frac(100, 1) }
            /\ writes[t][i].status = "completed"
               => /\ (i - 3) * batch_size >= file[t].rows
                  /\ writes[t][i].message.n = file[t].rows

\* Nothing of upload t exists: no content stored, no snapshot written.
NoTrace(t) ==
    /\ file[t] = [lines |-> 0, rows |-> 0]
    /\ writes[t] = <<>>
    /\ t \notin DOMAIN progress_store

\* The step that answers upload t changes nothing but the request itself.
RejectedAtOnce ==
    [][\A t \in Tasks :
          (pc'[t] = "rejected" /\ pc[t] # "rejected")
          => /\ pc[t] = "idle"
             /\ UNCHANGED <<file, progress_store, writes, products>>]_vars

\* C17 as stated: an upload whose file name does not end in .csv is
\* rejected with 400 before anything else happens: nothing is stored, no
\* task or snapshot is created, no product is created or changed.
C17_NonCsvRejected ==
    /\ [](\A t \in Tasks :
            (filename[t] # <<>>
                /\ ~EndsWith(LowerName(filename[t]), <<".", "c", "s", "v">>))
            => pc[t] = "rejected" /\ NoTrace(t))
    /\ RejectedAtOnce

\* C17 amended: as C17 for a file name that ends in neither .csv nor .txt,
\* letter case ignored; a name ending in .txt is accepted like one in .csv.
C17_NonCsvTxtRejected ==
    /\ [](\A t \in Tasks :
            filename[t] # <<>>
            => /\ NoTrace(t)
               /\ pc[t] = "rejected"
                  <=> /\ ~EndsWith(LowerName(filename[t]), <<".", "c", "s", "v">>)
                      /\ ~EndsWith(LowerName(filename[t]), <<".", "t", "x", "t">>))
    /\ RejectedAtOnce

\* The upload of a.xls stands rejected and the catalog holds the products
\* of another upload.
C17_Witness ==
    /\ products # {}
    /\ \E t \in Tasks :
          /\ pc[t] = "rejected"
          /\ filename[t] = <<"a", ".", "x", "l", "s">>

\* C18: DELETE /products answers 400 and leaves every product row as it is
\* unless confirm is true; with confirm true it removes all product rows, so
\* that GET /products on the emptied table returns an empty list; in either
\* case the rows of webhooks stay as they are.
C18_BulkDelete ==
    [][\A r \in Reqs :
          /\ (req[r].st = "run" /\ req[r].kind = "delete_all"
                 /\ req'[r].st = "finished")
             => /\ webhooks' = webhooks
                /\ IF req[r].confirm = "true"
                   THEN products' = {} /\ req'[r].res = "200"
                   ELSE products' = products /\ req'[r].res = "400"
          /\ (req[r].st = "run" /\ req[r].kind = "list"
                 /\ req'[r].st = "finished")
             => /\ req'[r].res = "200"
                /\ products = {} => req'[r].items = <<>>
                /\ Len(req'[r].items) = Cardinality(products)]_vars

\* A bulk delete with confirm=true has removed products and the webhooks
\* are still there.
C18_Witness ==
    \E r \in Reqs :
        /\ req[r].st = "finished"
        /\ req[r].kind = "delete_all"
        /\ req[r].res = "200"
        /\ req[r].n >= 1
        /\ products = {}
        /\ webhooks # {}

\* C19: the progress of every snapshot an import writes lies between 0.0
\* and 100.0, whatever the line count of the file is against the rows the
\* reader yields (blank lines, an empty file, a count that failed).
C19_ProgressInRange ==
    \A t \in Tasks :
        \A i \in 1..Len(writes[t]) :
            /\ writes[t][i].progress.d > 0
            /\ Leq(Frac(0, 1), writes[t][i].progress)
            /\ Leq(writes[t][i].progress, Frac(100, 1))

\* A file with a blank line has been imported, its last batch reported at
\* a progress between 0 and 100, and so has a file whose count failed,
\* its full batch reported at 0.
C19_Witness ==
    \E t, u \in Tasks :
        /\ file[t].lines > file[t].rows + 1
        /\ \E i \in 1..Len(writes[t]) :
              /\ writes[t][i].status = "importing"
              /\ writes[t][i].progress \notin {Frac(0, 1), Frac(100, 1)}
        /\ LastWrite(t).status = "completed"
        /\ \E i \in 1..Len(writes[u]) :
              /\ writes[u][i].status = "importing"
              /\ writes[u][i].progress = Frac(0, 1)

\* Product p holds every field that row provides.
HoldsRow(p, row) ==
    /\ Provided(row, "name", "Name") # None
       => p.name = Provided(row, "name", "Name")
    /\ Provided(row, "description", "Description") # None
       => p.description = Provided(row, "description", "Description")
    /\ Provided(row, "price", "Price") # None
       => p.price = Provided(row, "price", "Price")
    /\ Provided(row, "active", "Active") # None
       => p.active = (Lower(Strip(Provided(row, "active", "Active")))
                         \notin {"0", "false", "no", "n"})

\* C20: the rows of a batch are upserted in file order, so that when a row
\* has been handled whose SKU equals, ignoring case, the SKU of an earlier
\* row of the file (here: of the same batch), the stored product of that
\* SKU holds the fields the later row provides.  A batch whose session
\* cannot reach the store is left aside.
C20_LaterRowWins ==
    [][\A t \in Tasks :
          (/\ pc[t] \in {"lookup", "write"}
           /\ idx'[t] = idx[t] + 1
           /\ sess[t] # "down"
           /\ Truthy(RowSku(batch[t][idx[t]]))
           /\ \E j \in 1..(idx[t] - 1) :
                 /\ Truthy(RowSku(batch[t][j]))
                 /\ Lower(RowSku(batch[t][j])) = Lower(RowSku(batch[t][idx[t]])))
          => \E p \in products' :
                /\ Lower(p.sku) = Lower(RowSku(batch[t][idx[t]]))
                /\ HoldsRow(p, batch[t][idx[t]])]_vars

\* The value of a row's active column: the first of active, Active that is
\* neither absent nor empty, None when there is none.
ActiveRaw(row) ==
    IF row.active # None /\ row.active # "" THEN row.active
    ELSE IF row.Active # None /\ row.Active # "" THEN row.Active
    ELSE None

\* C21: a row's active value that, trimmed and lowercased, is one of 0,
\* false, no, n gives false and any other non-empty value gives true; with
\* the value absent or empty a product found keeps its stored active and a
\* product created gets active = true.
C21_ActiveNormalized ==
    [][\A t \in Tasks :
          (pc[t] = "write" /\ Moves(t))
          => LET row == batch[t][idx[t]]
                 raw == ActiveRaw(row)
                 new == CHOOSE p \in products' :
                           Lower(p.sku) = Lower(RowSku(row))
             IN  /\ Cardinality(products') = 1
                 /\ raw # None
                    => new.active =
                          (Lower(Strip(raw)) \notin {"0", "false", "no", "n"})
                 /\ (raw = None /\ existing[t] # {})
                    => new.active = Found(t).active
                 /\ (raw = None /\ existing[t] = {})
                    => new.active = TRUE]_vars

\* A row with an empty active column and no Active column has updated the
\* inactive product abc, which is still inactive.
C21_Witness ==
    /\ pc["t1"] = "finish"
    /\ last["t1"] = "updated"
    /\ batch["t1"][1].active = ""
    /\ batch["t1"][1].Active = None
    /\ \E p \in products : p.sku = "abc" /\ ~p.active

\* The uploader of t has got its task id: main.py:105, the body of the 202
\* response, is the one place where a task id leaves the server.
Disclosed(t) == pc[t] = "done"

\* C22: a task id is disclosed only by the 202 response, after completed has
\* been written: the snapshot a client reads for a disclosed task id has
\* status completed and progress 100, and an import that has written failed
\* answers 500, its task id never disclosed.
C22_DisclosedIsCompleted ==
    /\ [](\A t \in Tasks :
            /\ Disclosed(t)
               => /\ LastWrite(t).status = "completed"
                  /\ get_progress(progress_store, t) = LastWrite(t)
            /\ (\E i \in 1..Len(writes[t]) : writes[t][i].status = "failed")
               => pc[t] \in {"raise", "error"})
    /\ [][\A r \in Reqs :
             (/\ req[r].st = "run"
              /\ req[r].kind = "progress"
              /\ req'[r].st = "finished"
              /\ Disclosed(req[r].task))
             => /\ req'[r].snap.status = "completed"
                /\ req'[r].snap.progress = Frac(100, 1)]_vars

\* A client has polled with the task id of a 202 response and has read
\* completed.
C22_Witness ==
    \E r \in Reqs :
        /\ req[r].st = "finished"
        /\ req[r].kind = "progress"
        /\ Disclosed(req[r].task)
        /\ req[r].snap.status = "completed"

\* C23: a set_progress for one task id leaves the snapshot of every other
\* task id as it is, and get_progress changes nothing in the store, a read
\* of an unknown id creating no record: the store holds for every task id
\* the latest snapshot written for it, and none for an id never written.
C23_TasksDoNotInterfere ==
    /\ [](\A u \in Tasks :
            IF writes[u] = <<>> THEN u \notin DOMAIN progress_store
            ELSE u \in DOMAIN progress_store
                 /\ progress_store[u] = LastWrite(u))
    /\ [][/\ \A u \in Tasks :
               writes'[u] = writes[u]
               => /\ u \in DOMAIN progress_store' <=> u \in DOMAIN progress_store
                  /\ get_progress(progress_store', u)
                        = get_progress(progress_store, u)
          /\ rd' # rd => progress_store' = progress_store]_vars

\* The import of t2 is at parsing, the snapshot of t1 is still completed,
\* and a reader has the default snapshot it got for t2 before that.
C23_Witness ==
    /\ "t1" \in DOMAIN progress_store
    /\ "t2" \in DOMAIN progress_store
    /\ progress_store["t1"].status = "completed"
    /\ progress_store["t2"].status = "parsing"
    /\ rd["g1"].pc = "returned"
    /\ rd["g1"].task = "t2"
    /\ rd["g1"].data.status = "pending"
====
